---- MODULE Spec2Model ----
(***************************************************************************)
(* json-crud-server (src/server.ts): a Hono/Deno HTTP service that keeps   *)
(* JSON items in an in-memory map (dataStore) and, write-through, in one   *)
(* file per item under DATA_DIR, with a daily sweeper that removes old     *)
(* files.                                                                  *)
(*                                                                         *)
(* JavaScript runs a handler to its next `await` without interruption, so  *)
(* every action below is one such run-to-completion segment.  A file       *)
(* operation (Deno.writeTextFile, Deno.remove, Deno.readTextFile,          *)
(* Deno.stat, Deno.readDir) is dispatched by one segment and takes effect  *)
(* at some later moment, in any order relative to the other pending        *)
(* operations; the segment that resumes after the `await` is modelled in   *)
(* the same action as the operation's effect.                              *)
(***************************************************************************)
EXTENDS Integers, Sequences, FiniteSets, TLC

\* ------------------------------------------------------------------ bounds
MaxReq == 2          \* request handlers in flight at the same time
MaxArrivals == 2     \* requests received in one behaviour of Spec
MaxTicks == 2        \* days that pass in one behaviour
MaxFailures == 1     \* file operations that fail in one behaviour

Slots == 1..MaxReq
Uuids == <<"id1", "id2">>      \* the UUIDs crypto.randomUUID() can return
Ids == {Uuids[i] : i \in DOMAIN Uuids}

\* ------------------------------------------------------------- JSON values
\* A JSON value is a tagged record; an object carries its fields as a
\* function from key to (string) value.
Undefined == [t |-> "undefined"]
JNum(n) == [t |-> "num", n |-> n]
JObj(f) == [t |-> "obj", f |-> f]
EmptyObj == [k \in {} |-> ""]

\* JavaScript truthiness, as `if (dataStore[id])` and `!result[id]` apply it.
Truthy(v) ==
  CASE v.t = "obj" -> TRUE
    [] v.t = "num" -> v.n # 0
    [] OTHER -> FALSE

\* Object spread `{ ...v }`: the own enumerable fields; none for a number
\* or for undefined.
Spread(v) == IF v.t = "obj" THEN v.f ELSE EmptyObj

\* `{ ...a, ...b }` on the spread fields: b's value wins on a shared key.
Merge(f, g) ==
  [k \in (DOMAIN f) \cup (DOMAIN g) |-> IF k \in DOMAIN g THEN g[k] ELSE f[k]]

\* `store[id]` on a JavaScript object: undefined when the key is missing.
Lookup(store, id) == IF id \in DOMAIN store THEN store[id] ELSE Undefined

\* `store[id] = v`
Put(store, id, v) ==
  [k \in (DOMAIN store) \cup {id} |-> IF k = id THEN v ELSE store[k]]

\* `delete store[id]`
Del(store, id) == [k \in (DOMAIN store) \ {id} |-> store[k]]

\* Date.prototype.toISOString on a millisecond instant (injective).
toISOString(ms) == "T" \o ToString(ms)

\* --------------------------------------------------------- request inputs
Doc == JObj([title |-> "t", content |-> "c"])
Upd == JObj([content |-> "x"])
Zero == JNum(0)
Malformed == [t |-> "malformed"]     \* a body text JSON.parse rejects
Tag == JObj([tag |-> "g"])
Bodies == {Doc, Upd, Tag, Zero, Malformed}
\* The bodies tried with each method.
BodiesOf(m) ==
  CASE m = "POST" -> {Doc, Zero, Malformed}
    [] m = "PATCH" -> {Upd, Tag, Malformed}
    [] OTHER -> {Upd, Malformed}

AUTH_HEADER == "r4HaS1AbangHaSAN"
NoHeader == "<absent>"               \* c.req.header() returned undefined
Headers == {AUTH_HEADER, "wrong", NoHeader}
Mutating == {"POST", "PUT", "PATCH", "DELETE"}

\* ------------------------------------------------------------------- time
DefaultRetentionDays == 7
DayMs == 24 * 60 * 60 * 1000
StartClock == DefaultRetentionDays * DayMs      \* Date.now() at process start
MaxClock == StartClock + MaxTicks * DayMs

\* `configData.retention?.days || 7` with retention given as <<>> (absent)
\* or <<days>>.
retentionDays(cfg) ==
  IF Len(cfg.retention) = 0 \/ cfg.retention[1] = 0
    THEN DefaultRetentionDays
    ELSE cfg.retention[1]
retentionMs(cfg) == retentionDays(cfg) * DayMs

\* ------------------------------------------------------- scheduleCleanup
\* JavaScript's Date on a host whose getTimezoneOffset() is z minutes (UTC
\* minus local time, no daylight saving): the local wall clock of instant t,
\* and the instant of a local wall clock w.
MinuteMs == 60000
HourMs == 3600000
JakartaHours == 7
toLocal(t, z) == t - z * MinuteMs
fromLocal(w, z) == w + z * MinuteMs
\* d.setDate(d.getDate() + 1) and d.setHours(0, 0, 0, 0) work on d's local
\* fields.
setDateNext(t, z) == fromLocal(toLocal(t, z) + DayMs, z)
setHoursMidnight(t, z) == fromLocal((toLocal(t, z) \div DayMs) * DayMs, z)

\* The locals of scheduleCleanup, for `now` on a host at offset z.
utc(now, z) == now + z * MinuteMs
jakartaTime(now, z) == utc(now, z) + HourMs * JakartaHours
nextRun(now, z) == setHoursMidnight(setDateNext(jakartaTime(now, z), z), z)
delay(now, z) == nextRun(now, z) - now

\* The hosts: UTC+14, UTC+7 (Asia/Jakarta), UTC (the Deno image's default)
\* and UTC-5.
UtcHost == 0
Zones == {-840, -420, UtcHost, 300}

VARIABLES
  dataStore,    \* the in-memory Item Store: id -> JSON value
  files,        \* DATA_DIR: id -> [content, mtime] of <id>.json
  configData,   \* the parsed config.yml
  clock,        \* Date.now()
  used,         \* ids that exist already or were generated
  req,          \* slot -> the handler in flight there
  resp,         \* the response the last step sent, NoResp if it sent none
  sweep,        \* the cleanup task
  arrivals,     \* requests still to come
  failures,     \* file operations that have failed so far
  posted,       \* id -> body of a POST answered 201, nothing on id since
  deleted,      \* ids a DELETE has answered 200 for
  zone,         \* the host's Date.prototype.getTimezoneOffset(), in minutes
  timers        \* the instants at which the pending setTimeout timers fire

vars == <<dataStore, files, configData, clock, used, req, resp, sweep,
          arrivals, failures, posted, deleted, zone, timers>>

NoId == "<none>"
Idle ==
  [pc |-> "idle", m |-> "", id |-> NoId, hdr |-> NoHeader, body |-> Undefined,
   data |-> Undefined, text |-> EmptyObj, result |-> EmptyObj]
NoResp == [status |-> 0]
Scheduled == [pc |-> "scheduled", now |-> 0, todo |-> {}, cur |-> NoId]

\* A file left by an earlier run of the server.
OldFile ==
  [content |-> Merge(Spread(Doc), [createdAt |-> toISOString(0)]), mtime |-> 0]

Init ==
  /\ dataStore = EmptyObj
  /\ files \in {EmptyObj, [k \in {"id1"} |-> OldFile]}
  /\ configData \in {[retention |-> <<>>], [retention |-> <<1>>]}
  /\ clock = StartClock
  /\ used = DOMAIN files
  /\ req = [r \in Slots |-> Idle]
  /\ resp = NoResp
  /\ sweep = Scheduled
  /\ arrivals = MaxArrivals
  /\ failures = 0
  /\ posted = EmptyObj
  /\ deleted = {}
  /\ zone = UtcHost
  /\ timers = <<StartClock + delay(StartClock, UtcHost)>>

\* ------------------------------------------------------------- responses
ErrorBody(msg) == JObj([error |-> msg])
\* The response to the request held in slot record q.
Reply(q, status, out) ==
  [m |-> q.m, id |-> q.id, hdr |-> q.hdr, body |-> q.body,
   status |-> status, out |-> out]
Request(m, id, hdr, body) ==
  [Idle EXCEPT !.m = m, !.id = id, !.hdr = hdr, !.body = body]
BaseUrl == "http://localhost:8000"

\* A faulty authMiddleware that only checks that the header is present.
authMiddlewarePresenceOnly(hdr) == ~ (hdr = NoHeader \/ hdr = "")

\* authMiddleware lets the request through to the handler.
authMiddleware(hdr) ==
  ~ ((hdr = NoHeader \/ hdr = "") \/ hdr # AUTH_HEADER)

\* crypto.randomUUID(): an id never seen before.  The ids are
\* interchangeable, so the first unused one stands for any of them.
randomUUID ==
  LET free == {i \in DOMAIN Uuids : Uuids[i] \notin used} IN
    Uuids[CHOOSE i \in free : \A j \in free : i <= j]

\* A faulty existence check that also accepts an id that only has a file.
ExistsInEitherStore(id) ==
  Truthy(Lookup(dataStore, id)) \/ id \in DOMAIN files

\* `if (!dataStore[id]) return 404` of PUT, PATCH and DELETE.
Exists(id) == Truthy(Lookup(dataStore, id))

\* The text writeIndividualDataFile serialises: JSON.stringify of
\* { ...data, createdAt: new Date().toISOString() }, kept as the object
\* JSON.parse gives back for it.
FileText(data) ==
  Merge(Spread(data), [createdAt |-> toISOString(clock)])

\* The value PATCH stores: { ...dataStore[id], ...updates }.
Patched(old, updates) == JObj(Merge(Spread(old), Spread(updates)))

\* An id is no longer "as the POST left it" once anything else acts on it.
Touch(id) == [k \in (DOMAIN posted) \ {id} |-> posted[k]]

\* A file operation fails with an I/O error.
Fail == failures < MaxFailures /\ failures' = failures + 1

\* A handler starts in the first free slot.
Free(r) == req[r].pc = "idle" /\ \A s \in Slots : s < r => req[s].pc # "idle"

\* Nothing is in flight: no handler, no sweep.
Quiet == sweep.pc = "scheduled" /\ \A s \in Slots : req[s].pc = "idle"

\* ---------------------------------------------------- mutating requests
\* A handler's first segment, from the request's arrival to the end of
\* `await c.req.json()`, reads nothing but the header and the body, so it
\* is taken together with the segment that follows it.

\* A POST, PUT, PATCH or DELETE that authMiddleware answers 401; the body
\* is never read.
Unauthorized(m, id, hdr) ==
  /\ resp = NoResp
  /\ arrivals > 0
  /\ ~ authMiddleware(hdr)
  /\ arrivals' = arrivals - 1
  /\ resp' = Reply(Request(m, id, hdr, Undefined), 401,
                   ErrorBody("unauthorized"))
  /\ UNCHANGED <<zone, timers, dataStore, files, configData, clock, used,
                 req, sweep,
                 failures, posted, deleted>>

\* A faulty handler that looks the id up before it parses the body, and so
\* answers a malformed PUT or PATCH on a missing id with 404.
BadJsonAfterLookup(m, id, hdr, body) ==
  /\ resp = NoResp
  /\ arrivals > 0
  /\ authMiddleware(hdr)
  /\ body = Malformed
  /\ arrivals' = arrivals - 1
  /\ resp' = IF m # "POST" /\ ~ Truthy(Lookup(dataStore, id))
               THEN Reply(Request(m, id, hdr, body), 404, ErrorBody("Not Found"))
               ELSE Reply(Request(m, id, hdr, body), 400,
                          ErrorBody("Bad Request - Invalid JSON"))
  /\ UNCHANGED <<zone, timers, dataStore, files, configData, clock, used,
                 req, sweep,
                 failures, posted, deleted>>

\* c.req.json() throws SyntaxError: 400 from POST, PUT and PATCH alike.
BadJson(m, id, hdr, body) ==
  /\ resp = NoResp
  /\ arrivals > 0
  /\ authMiddleware(hdr)
  /\ body = Malformed
  /\ arrivals' = arrivals - 1
  /\ resp' = Reply(Request(m, id, hdr, body), 400,
                   ErrorBody("Bad Request - Invalid JSON"))
  /\ UNCHANGED <<zone, timers, dataStore, files, configData, clock, used,
                 req, sweep,
                 failures, posted, deleted>>

\* POST: new id, dataStore[id] = body, and the file write is dispatched.
PostStore(r, hdr, body) ==
  /\ resp = NoResp
  /\ arrivals > 0
  /\ Free(r)
  /\ authMiddleware(hdr)
  /\ body # Malformed
  /\ arrivals' = arrivals - 1
  /\ Ids \ used # {}
  /\ LET id == randomUUID IN
       /\ used' = used \cup {id}
       /\ dataStore' = Put(dataStore, id, body)
       /\ req' = [req EXCEPT ![r] =
                    [Request("POST", id, hdr, body) EXCEPT
                       !.pc = "write", !.data = body, !.text = FileText(body)]]
       /\ posted' = Put(posted, id, [body |-> body, done |-> FALSE])
  /\ resp' = NoResp
  /\ UNCHANGED <<zone, timers,
                 files, configData, clock, sweep, failures, deleted>>

\* PUT or PATCH on an id the store does not hold.
UpdateMissing(m, id, hdr, body) ==
  /\ resp = NoResp
  /\ arrivals > 0
  /\ authMiddleware(hdr)
  /\ body # Malformed
  /\ ~ Exists(id)
  /\ arrivals' = arrivals - 1
  /\ resp' = Reply(Request(m, id, hdr, body), 404, ErrorBody("Not Found"))
  /\ UNCHANGED <<zone, timers, dataStore, files, configData, clock, used,
                 req, sweep,
                 failures, posted, deleted>>

\* PUT: dataStore[id] = body, file write dispatched.
PutStore(r, id, hdr, body) ==
  /\ resp = NoResp
  /\ arrivals > 0
  /\ Free(r)
  /\ authMiddleware(hdr)
  /\ body # Malformed
  /\ Exists(id)
  /\ arrivals' = arrivals - 1
  /\ dataStore' = Put(dataStore, id, body)
  /\ req' = [req EXCEPT ![r] =
               [Request("PUT", id, hdr, body) EXCEPT
                  !.pc = "write", !.data = body, !.text = FileText(body)]]
  /\ posted' = Touch(id)
  /\ resp' = NoResp
  /\ UNCHANGED <<zone, timers,
                 files, configData, clock, used, sweep, failures, deleted>>

\* A faulty PATCH that merges the updates into the item as its file has
\* it, not as the Item Store has it.
PatchStoreFromFile(r, id, hdr, body) ==
  /\ resp = NoResp
  /\ arrivals > 0
  /\ Free(r)
  /\ authMiddleware(hdr)
  /\ body # Malformed
  /\ Exists(id)
  /\ arrivals' = arrivals - 1
  /\ LET old == IF id \in DOMAIN files
                  THEN JObj([k \in (DOMAIN files[id].content) \ {"createdAt"}
                               |-> files[id].content[k]])
                  ELSE Lookup(dataStore, id)
         merged == Patched(old, body) IN
       /\ dataStore' = Put(dataStore, id, merged)
       /\ req' = [req EXCEPT ![r] =
                    [Request("PATCH", id, hdr, body) EXCEPT
                       !.pc = "write", !.data = merged,
                       !.text = FileText(merged)]]
  /\ posted' = Touch(id)
  /\ resp' = NoResp
  /\ UNCHANGED <<zone, timers, files, configData, clock, used, sweep,
                 failures, deleted>>

\* PATCH: dataStore[id] = { ...dataStore[id], ...updates }, file write
\* dispatched with the merged value.
PatchStore(r, id, hdr, body) ==
  /\ resp = NoResp
  /\ arrivals > 0
  /\ Free(r)
  /\ authMiddleware(hdr)
  /\ body # Malformed
  /\ Exists(id)
  /\ arrivals' = arrivals - 1
  /\ LET merged == Patched(Lookup(dataStore, id), body) IN
       /\ dataStore' = Put(dataStore, id, merged)
       /\ req' = [req EXCEPT ![r] =
                    [Request("PATCH", id, hdr, body) EXCEPT
                       !.pc = "write", !.data = merged,
                       !.text = FileText(merged)]]
  /\ posted' = Touch(id)
  /\ resp' = NoResp
  /\ UNCHANGED <<zone, timers,
                 files, configData, clock, used, sweep, failures, deleted>>

\* What POST, PUT and PATCH answer once the file is written.
Written(q) ==
  IF q.m = "POST"
    THEN Reply(q, 201,
               JObj([id |-> q.id, url |-> BaseUrl \o "/json/" \o q.id,
                     data |-> q.body]))
    ELSE Reply(q, 200, Lookup(dataStore, q.id))

\* Deno.writeTextFile takes effect and the handler answers.
WriteDone(r) ==
  /\ resp = NoResp
  /\ req[r].pc = "write"
  /\ files' = Put(files, req[r].id, [content |-> req[r].text, mtime |-> clock])
  /\ req' = [req EXCEPT ![r] = Idle]
  /\ resp' = Written(req[r])
  /\ posted' =
       IF req[r].m = "POST" /\ req[r].id \in DOMAIN posted
         THEN [posted EXCEPT ![req[r].id].done = TRUE]
         ELSE posted
  /\ UNCHANGED <<zone, timers,
                 dataStore, configData, clock, used, sweep, arrivals,
                 failures, deleted>>

\* A faulty catch that takes the id back out of the Item Store when the
\* file write has failed.
WriteFailRollback(r) ==
  /\ resp = NoResp
  /\ req[r].pc = "write"
  /\ Fail
  /\ req' = [req EXCEPT ![r] = Idle]
  /\ resp' = Reply(req[r], 500, ErrorBody("Internal Server Error"))
  /\ posted' = Touch(req[r].id)
  /\ dataStore' = Del(dataStore, req[r].id)
  /\ UNCHANGED <<zone, timers, files, configData, clock, used, sweep,
                 arrivals, deleted>>

\* Deno.writeTextFile fails: the handler's catch answers 500.
WriteFail(r) ==
  /\ resp = NoResp
  /\ req[r].pc = "write"
  /\ Fail
  /\ req' = [req EXCEPT ![r] = Idle]
  /\ resp' = Reply(req[r], 500, ErrorBody("Internal Server Error"))
  /\ posted' = Touch(req[r].id)
  /\ UNCHANGED <<zone, timers,
                 dataStore, files, configData, clock, used, sweep, arrivals,
                 deleted>>

\* DELETE on an id the store does not hold.
DeleteMissing(id, hdr) ==
  /\ resp = NoResp
  /\ arrivals > 0
  /\ authMiddleware(hdr)
  /\ ~ Exists(id)
  /\ arrivals' = arrivals - 1
  /\ resp' = Reply(Request("DELETE", id, hdr, Undefined), 404,
                   ErrorBody("Not Found"))
  /\ UNCHANGED <<zone, timers, dataStore, files, configData, clock, used,
                 req, sweep,
                 failures, posted, deleted>>

\* DELETE: delete dataStore[id], file removal dispatched.
DeleteStore(r, id, hdr) ==
  /\ resp = NoResp
  /\ arrivals > 0
  /\ Free(r)
  /\ authMiddleware(hdr)
  /\ Exists(id)
  /\ arrivals' = arrivals - 1
  /\ dataStore' = Del(dataStore, id)
  /\ req' = [req EXCEPT ![r] =
               [Request("DELETE", id, hdr, Undefined) EXCEPT !.pc = "remove"]]
  /\ posted' = Touch(id)
  /\ resp' = NoResp
  /\ UNCHANGED <<zone, timers,
                 files, configData, clock, used, sweep, failures, deleted>>

\* deleteIndividualDataFile: Deno.remove takes effect (a missing file is
\* ignored) and DELETE answers 200.
RemoveDone(r) ==
  /\ resp = NoResp
  /\ req[r].pc = "remove"
  /\ files' = Del(files, req[r].id)
  /\ req' = [req EXCEPT ![r] = Idle]
  /\ resp' = Reply(req[r], 200, JObj([message |-> "Json deleted successfully"]))
  /\ deleted' = deleted \cup {req[r].id}
  /\ UNCHANGED <<zone, timers,
                 dataStore, configData, clock, used, sweep, arrivals,
                 failures, posted>>

\* Deno.remove fails with something other than NotFound: 500.
RemoveFail(r) ==
  /\ resp = NoResp
  /\ req[r].pc = "remove"
  /\ Fail
  /\ req' = [req EXCEPT ![r] = Idle]
  /\ resp' = Reply(req[r], 500, ErrorBody("Internal Server Error"))
  /\ UNCHANGED <<zone, timers,
                 dataStore, files, configData, clock, used, sweep, arrivals,
                 posted, deleted>>

\* ------------------------------------------------------------------ reads
\* GET /json/:id served from the store.
GetOneMemory(id) ==
  /\ resp = NoResp
  /\ arrivals > 0
  /\ Truthy(Lookup(dataStore, id))
  /\ arrivals' = arrivals - 1
  /\ resp' = Reply(Request("GET", id, NoHeader, Undefined), 200, dataStore[id])
  /\ UNCHANGED <<zone, timers, dataStore, files, configData, clock, used,
                 req, sweep,
                 failures, posted, deleted>>

\* GET /json/:id falls back to the file: Deno.readTextFile dispatched.
GetOneFile(r, id) ==
  /\ resp = NoResp
  /\ arrivals > 0
  /\ Free(r)
  /\ ~ Truthy(Lookup(dataStore, id))
  /\ arrivals' = arrivals - 1
  /\ req' = [req EXCEPT ![r] =
               [Request("GET", id, NoHeader, Undefined) EXCEPT !.pc = "read"]]
  /\ resp' = NoResp
  /\ UNCHANGED <<zone, timers,
                 dataStore, files, configData, clock, used, sweep, failures,
                 posted, deleted>>

\* A faulty GET /json/:id that keeps what it read from the file in the
\* Item Store.
ReadDoneWriteBack(r) ==
  /\ resp = NoResp
  /\ req[r].pc = "read"
  /\ req' = [req EXCEPT ![r] = Idle]
  /\ resp' =
       IF req[r].id \in DOMAIN files
         THEN Reply(req[r], 200, JObj(files[req[r].id].content))
         ELSE Reply(req[r], 404, ErrorBody("Not Found"))
  /\ dataStore' =
       IF req[r].id \in DOMAIN files
         THEN Put(dataStore, req[r].id, JObj(files[req[r].id].content))
         ELSE dataStore
  /\ UNCHANGED <<zone, timers, files, configData, clock, used, sweep,
                 arrivals, failures, posted, deleted>>

\* Deno.readTextFile takes effect: the parsed file, or 404 when it is
\* missing.
ReadDone(r) ==
  /\ resp = NoResp
  /\ req[r].pc = "read"
  /\ req' = [req EXCEPT ![r] = Idle]
  /\ resp' =
       IF req[r].id \in DOMAIN files
         THEN Reply(req[r], 200, JObj(files[req[r].id].content))
         ELSE Reply(req[r], 404, ErrorBody("Not Found"))
  /\ UNCHANGED <<zone, timers,
                 dataStore, files, configData, clock, used, sweep, arrivals,
                 failures, posted, deleted>>

\* Deno.readTextFile fails with something other than NotFound: 500.
ReadFail(r) ==
  /\ resp = NoResp
  /\ req[r].pc = "read"
  /\ Fail
  /\ req' = [req EXCEPT ![r] = Idle]
  /\ resp' = Reply(req[r], 500, ErrorBody("Internal Server Error"))
  /\ UNCHANGED <<zone, timers,
                 dataStore, files, configData, clock, used, sweep, arrivals,
                 posted, deleted>>

\* GET /json: result = { ...dataStore }, Deno.readDir dispatched.
GetAll(r) ==
  /\ resp = NoResp
  /\ arrivals > 0
  /\ Free(r)
  /\ arrivals' = arrivals - 1
  /\ req' = [req EXCEPT ![r] =
               [Request("GET", NoId, NoHeader, Undefined) EXCEPT
                  !.pc = "readdir", !.result = dataStore]]
  /\ resp' = NoResp
  /\ UNCHANGED <<zone, timers,
                 dataStore, files, configData, clock, used, sweep, failures,
                 posted, deleted>>

\* The loop of GET /json over the directory: every <id>.json whose
\* result[id] is falsy is read into result.
WithFiles(result) ==
  [id \in (DOMAIN result) \cup (DOMAIN files) |->
     IF id \in DOMAIN files /\ ~ Truthy(Lookup(result, id))
       THEN JObj(files[id].content)
       ELSE result[id]]

\* Deno.readDir and the reads of GET /json take effect.
ReadDirDone(r) ==
  /\ resp = NoResp
  /\ req[r].pc = "readdir"
  /\ req' = [req EXCEPT ![r] = Idle]
  /\ resp' = Reply(req[r], 200, JObj(WithFiles(req[r].result)))
  /\ UNCHANGED <<zone, timers,
                 dataStore, files, configData, clock, used, sweep, arrivals,
                 failures, posted, deleted>>

\* Deno.readDir fails: the error is logged and the store's copy is sent.
ReadDirFail(r) ==
  /\ resp = NoResp
  /\ req[r].pc = "readdir"
  /\ Fail
  /\ req' = [req EXCEPT ![r] = Idle]
  /\ resp' = Reply(req[r], 200, JObj(req[r].result))
  /\ UNCHANGED <<zone, timers,
                 dataStore, files, configData, clock, used, sweep, arrivals,
                 posted, deleted>>

\* ---------------------------------------------------------------- sweeper
\* `fileAge > retentionMs`
Expired(now, mtime) == now - mtime > retentionMs(configData)

\* The loop goes on to the next entry; after the last one cleanupOldFiles
\* returns and scheduleCleanup sets the next timer.
Advance(todo) ==
  IF todo = {} THEN Scheduled ELSE [sweep EXCEPT !.pc = "next", !.todo = todo,
                                                 !.cur = NoId]

\* scheduleCleanup computes the delay from Date.now() and sets one timer.
scheduleCleanup == Append(timers, clock + delay(clock, zone))

\* The timer's callback calls scheduleCleanup when cleanupOldFiles has
\* returned, that is when the task s is back to "scheduled".
Rescheduled(s) == IF s.pc = "scheduled" THEN scheduleCleanup ELSE timers

\* The timer's callback runs: cleanupOldFiles takes Date.now() and
\* Deno.readDir lists the <id>.json entries.
SweepStart ==
  /\ resp = NoResp
  /\ sweep.pc = "due"
  /\ sweep' = IF DOMAIN files = {}
                THEN Scheduled
                ELSE [sweep EXCEPT !.pc = "next", !.now = clock,
                                   !.todo = DOMAIN files]
  /\ timers' = Rescheduled(sweep')
  /\ resp' = NoResp
  /\ UNCHANGED <<zone, dataStore, files, configData, clock, used, req, arrivals,
                 failures, posted, deleted>>

\* Deno.stat of an entry that is still there: expired files go on to
\* Deno.remove, the others are left.
SweepStat(id) ==
  /\ resp = NoResp
  /\ sweep.pc = "next"
  /\ id \in sweep.todo
  /\ id \in DOMAIN files
  /\ sweep' =
       IF Expired(sweep.now, files[id].mtime)
         THEN [sweep EXCEPT !.pc = "remove", !.cur = id, !.todo = @ \ {id}]
         ELSE Advance(sweep.todo \ {id})
  /\ timers' = Rescheduled(sweep')
  /\ resp' = NoResp
  /\ UNCHANGED <<zone, dataStore, files, configData, clock, used, req, arrivals,
                 failures, posted, deleted>>

\* A faulty cleanupOldFiles that lets the error of Deno.readDir or Deno.stat
\* escape, so that the timer's callback never reaches scheduleCleanup.
SweepAbortNoReschedule ==
  /\ resp = NoResp
  /\ \/ sweep.pc = "due" /\ Fail
     \/ sweep.pc = "next" /\ Fail
     \/ /\ sweep.pc = "next"
        /\ \E id \in sweep.todo : id \notin DOMAIN files
        /\ failures' = failures
  /\ sweep' = Scheduled
  /\ resp' = NoResp
  /\ UNCHANGED <<zone, timers, dataStore, files, configData, clock, used,
                 req, arrivals, posted, deleted>>

\* Deno.readDir or Deno.stat throws (the entry is gone, or an I/O error):
\* the outer catch ends the sweep.
SweepAbort ==
  /\ resp = NoResp
  /\ \/ sweep.pc = "due" /\ Fail
     \/ sweep.pc = "next" /\ Fail
     \/ /\ sweep.pc = "next"
        /\ \E id \in sweep.todo : id \notin DOMAIN files
        /\ failures' = failures
  /\ sweep' = Scheduled
  /\ timers' = Rescheduled(sweep')
  /\ resp' = NoResp
  /\ UNCHANGED <<zone, dataStore, files, configData, clock, used, req, arrivals,
                 posted, deleted>>

\* A sweeper that looks at the modification time again before it removes,
\* and leaves a file that has been rewritten since its stat.
SweepRemoveRechecked ==
  /\ resp = NoResp
  /\ sweep.pc = "remove"
  /\ sweep.cur \in DOMAIN files
  /\ IF Expired(sweep.now, files[sweep.cur].mtime)
       THEN /\ files' = Del(files, sweep.cur)
            /\ dataStore' = IF Exists(sweep.cur)
                              THEN Del(dataStore, sweep.cur)
                              ELSE dataStore
            /\ posted' = Touch(sweep.cur)
       ELSE UNCHANGED <<files, dataStore, posted>>
  /\ sweep' = Advance(sweep.todo)
  /\ timers' = Rescheduled(sweep')
  /\ resp' = NoResp
  /\ UNCHANGED <<zone, configData, clock, used, req, arrivals, failures,
                 deleted>>

\* Deno.remove takes effect, then `if (dataStore[id]) delete dataStore[id]`.
SweepRemove ==
  /\ resp = NoResp
  /\ sweep.pc = "remove"
  /\ sweep.cur \in DOMAIN files
  /\ files' = Del(files, sweep.cur)
  /\ dataStore' = IF Exists(sweep.cur) THEN Del(dataStore, sweep.cur)
                                       ELSE dataStore
  /\ posted' = Touch(sweep.cur)
  /\ sweep' = Advance(sweep.todo)
  /\ timers' = Rescheduled(sweep')
  /\ resp' = NoResp
  /\ UNCHANGED <<zone,
                 configData, clock, used, req, arrivals, failures, deleted>>

\* Deno.remove throws (the file is gone, or an I/O error): logged by the
\* inner catch, the loop goes on.
SweepRemoveFail ==
  /\ resp = NoResp
  /\ sweep.pc = "remove"
  /\ \/ sweep.cur \notin DOMAIN files /\ failures' = failures
     \/ Fail
  /\ sweep' = Advance(sweep.todo)
  /\ timers' = Rescheduled(sweep')
  /\ resp' = NoResp
  /\ UNCHANGED <<zone, dataStore, files, configData, clock, used, req, arrivals,
                 posted, deleted>>

\* ------------------------------------------------------------------- time
\* Time passes, with nothing in flight meanwhile, until the timer set by
\* scheduleCleanup fires; a timer whose delay is not positive fires at once.
Tick ==
  /\ resp = NoResp
  /\ Quiet
  /\ timers # <<>>
  /\ clock < MaxClock
  /\ clock' = IF Head(timers) > clock THEN Head(timers) ELSE clock
  /\ timers' = Tail(timers)
  /\ sweep' = [sweep EXCEPT !.pc = "due"]
  /\ resp' = NoResp
  /\ UNCHANGED <<zone, dataStore, files, configData, used, req, arrivals,
                 failures, posted, deleted>>

\* The server hands the response of the last step to the client. No step
\* reads resp, so taking this step before the next one loses no behaviour.
Sent ==
  /\ resp # NoResp
  /\ resp' = NoResp
  /\ UNCHANGED <<zone, timers, dataStore, files, configData, clock, used,
                 req, sweep, arrivals, failures, posted, deleted>>

Next ==
  \/ \E m \in Mutating, id \in Ids, hdr \in Headers :
       Unauthorized(m, IF m = "POST" THEN NoId ELSE id, hdr)
  \/ \E m \in {"POST", "PUT", "PATCH"}, id \in Ids, hdr \in Headers :
       \E body \in BodiesOf(m) :
       BadJson(m, IF m = "POST" THEN NoId ELSE id, hdr, body)
  \/ \E r \in Slots, hdr \in Headers, body \in BodiesOf("POST") :
       PostStore(r, hdr, body)
  \/ \E m \in {"PUT", "PATCH"}, id \in Ids, hdr \in Headers :
       \E body \in BodiesOf(m) :
       UpdateMissing(m, id, hdr, body)
  \/ \E r \in Slots, id \in Ids, hdr \in Headers, body \in BodiesOf("PUT") :
       PutStore(r, id, hdr, body)
  \/ \E r \in Slots, id \in Ids, hdr \in Headers, body \in BodiesOf("PATCH") :
       PatchStore(r, id, hdr, body)
  \/ \E r \in Slots : WriteDone(r)
  \/ \E r \in Slots : WriteFail(r)
  \/ \E id \in Ids, hdr \in Headers : DeleteMissing(id, hdr)
  \/ \E r \in Slots, id \in Ids, hdr \in Headers : DeleteStore(r, id, hdr)
  \/ \E r \in Slots : RemoveDone(r)
  \/ \E r \in Slots : RemoveFail(r)
  \/ \E id \in Ids : GetOneMemory(id)
  \/ \E r \in Slots, id \in Ids : GetOneFile(r, id)
  \/ \E r \in Slots : ReadDone(r)
  \/ \E r \in Slots : ReadFail(r)
  \/ \E r \in Slots : GetAll(r)
  \/ \E r \in Slots : ReadDirDone(r)
  \/ \E r \in Slots : ReadDirFail(r)
  \/ SweepStart
  \/ \E id \in Ids : SweepStat(id)
  \/ SweepAbort
  \/ SweepRemove
  \/ SweepRemoveFail
  \/ Tick
  \/ Sent

Spec == Init /\ [][Next]_vars

\* ------------------------------------------------- the scheduler alone
\* The process starts at any hour of the day on any of the hosts, with an
\* empty DATA_DIR and no request; the module's last statements call
\* scheduleCleanup for the first time.
MaxStartHour == 23
StartInstants == {StartClock + h * HourMs : h \in 0..MaxStartHour}
Booting == [Scheduled EXCEPT !.pc = "boot"]

InitSched ==
  /\ dataStore = EmptyObj
  /\ files = EmptyObj
  /\ configData \in {[retention |-> <<>>]}
  /\ clock \in StartInstants
  /\ used = {}
  /\ req = [r \in Slots |-> Idle]
  /\ resp = NoResp
  /\ sweep = Booting
  /\ arrivals = 0
  /\ failures = 0
  /\ posted = EmptyObj
  /\ deleted = {}
  /\ zone \in Zones
  /\ timers = <<>>

\* `scheduleCleanup();` at the end of the module.
Start ==
  /\ resp = NoResp
  /\ sweep.pc = "boot"
  /\ sweep' = Scheduled
  /\ timers' = scheduleCleanup
  /\ resp' = NoResp
  /\ UNCHANGED <<zone, dataStore, files, configData, clock, used, req,
                 arrivals, failures, posted, deleted>>

NextSched ==
  \/ Start
  \/ Tick
  \/ SweepStart

SpecSched == InitSched /\ [][NextSched]_vars

\* ------------------------------------------------------ a server in use
\* The server has run for a week on the default retention and holds one
\* item, created when it started and not yet expired.
InitBusy ==
  /\ dataStore = [k \in {"id1"} |-> Doc]
  /\ files = [k \in {"id1"} |-> OldFile]
  /\ configData = [retention |-> <<>>]
  /\ clock = StartClock
  /\ used = {"id1"}
  /\ req = [r \in Slots |-> Idle]
  /\ resp = NoResp
  /\ sweep = Scheduled
  /\ arrivals = MaxArrivals
  /\ failures = 0
  /\ posted = EmptyObj
  /\ deleted = {}
  /\ zone = UtcHost
  /\ timers = <<StartClock + delay(StartClock, UtcHost)>>

SpecBusy == InitBusy /\ [][Next]_vars

\* ------------------------------------------------- the sweeper at work
\* The sweeper next to the requests that take files away under it, DELETE;
\* a sweep that has started goes on, as the runtime completes every file
\* operation and resumes the task after it.
SweepStep ==
  \/ SweepStart
  \/ \E id \in Ids : SweepStat(id)
  \/ SweepAbort
  \/ SweepRemove
  \/ SweepRemoveFail

NextSweep ==
  \/ \E id \in Ids, hdr \in Headers : DeleteMissing(id, hdr)
  \/ \E r \in Slots, id \in Ids, hdr \in Headers : DeleteStore(r, id, hdr)
  \/ \E r \in Slots : RemoveDone(r)
  \/ \E r \in Slots : RemoveFail(r)
  \/ SweepStart
  \/ \E id \in Ids : SweepStat(id)
  \/ SweepAbort
  \/ SweepRemove
  \/ SweepRemoveFail
  \/ Tick
  \/ Sent

SpecSweep ==
  InitBusy /\ [][NextSweep]_vars /\ WF_vars(SweepStep) /\ WF_vars(Sent)

\* ================================================================= claims
\* The request received by this step: the one now in a slot that was free,
\* or the one the step answered at once.
ArrivedReq ==
  LET new == {s \in Slots : req[s].pc = "idle" /\ req'[s].pc # "idle"} IN
    IF new # {} THEN req'[CHOOSE s \in new : TRUE] ELSE resp'
Arrival == arrivals' # arrivals
StoresUnchanged == dataStore' = dataStore /\ files' = files
\* The slots whose handler ends in this step from stage pc.
Ended(pc) == {s \in Slots : req[s].pc = pc /\ req'[s].pc = "idle"}
\* No handler and no sweep is working on id.
NothingOn(id) ==
  /\ \A s \in Slots :
       req[s].pc = "idle" \/ (req[s].id # id /\ req[s].pc # "readdir")
  /\ sweep.pc \in {"next", "remove"} => (id \notin sweep.todo /\ sweep.cur # id)

\* C1: a GET /json/:id that follows a successful POST of B, with nothing
\* else done to the id in between, answers 200 with B's fields plus
\* createdAt.
C1_RoundTrip ==
  [][ \A id \in Ids :
        ( /\ resp'.status # 0
          /\ resp'.m = "GET"
          /\ resp'.id = id
          /\ id \in DOMAIN posted
          /\ posted[id].done )
        => ( /\ resp'.status = 200
             /\ id \in DOMAIN files
             /\ resp'.out =
                  JObj(Merge(Spread(posted[id].body),
                             [createdAt |-> files[id].content.createdAt])) )
    ]_vars

\* The two parts of the deletion contract: the id is gone from both stores,
\* and a DELETE of an id the Item Store does not hold is refused.
C2_Gone ==
  \A id \in deleted :
    NothingOn(id) => (id \notin DOMAIN dataStore /\ id \notin DOMAIN files)
C2_DeleteMissing ==
  ( /\ Arrival
    /\ ArrivedReq.m = "DELETE"
    /\ ArrivedReq.hdr = AUTH_HEADER
    /\ ArrivedReq.id \notin DOMAIN dataStore )
  => resp'.status = 404
\* C2: once a DELETE of id has answered 200 and nothing is working on id
\* any more, id is in neither store; and a DELETE of an id the Item Store
\* does not hold answers 404.
C2_DeleteRemoves == [] C2_Gone /\ [][C2_DeleteMissing]_vars

\* C3: an authenticated, well-formed PUT, PATCH or DELETE on an id that has
\* a file but no Item Store entry answers 404 and changes neither store.
C3_BlindSpot ==
  [][ ( /\ Arrival
        /\ ArrivedReq.m \in {"PUT", "PATCH", "DELETE"}
        /\ ArrivedReq.hdr = AUTH_HEADER
        /\ ArrivedReq.body # Malformed
        /\ ArrivedReq.id \in DOMAIN files
        /\ ArrivedReq.id \notin DOMAIN dataStore )
      => (resp'.status = 404 /\ StoresUnchanged)
    ]_vars
\* A disk-only id has just been refused.
C3_Witness ==
  /\ resp.status = 404
  /\ resp.m \in {"PUT", "PATCH", "DELETE"}
  /\ resp.id \in DOMAIN files
  /\ resp.id \notin DOMAIN dataStore

\* The parts of the read contract: an id in both stores is answered from the
\* Item Store, a file-only id from its file, and GET /json does both.
C4_MemoryWins ==
  \A id \in (DOMAIN dataStore) \cap (DOMAIN files) :
    (Arrival /\ ArrivedReq.m = "GET" /\ ArrivedReq.id = id)
    => (resp'.status = 200 /\ resp'.out = dataStore[id])
C4_FileServed ==
  \A s \in Ended("read") :
    ( /\ failures' = failures
      /\ req[s].id \in DOMAIN files
      /\ req[s].id \notin DOMAIN dataStore )
    => (resp'.status = 200 /\ resp'.out = JObj(files[req[s].id].content))
C4_GetAll ==
  \A s \in Ended("readdir") :
    failures' = failures =>
      \A id \in DOMAIN files :
        /\ id \in DOMAIN resp'.out.f
        /\ resp'.out.f[id] = IF id \in DOMAIN req[s].result
                               THEN req[s].result[id]
                               ELSE JObj(files[id].content)
\* C4: GET /json/:id and GET /json serve a file-only id from its file, and
\* an id in both stores from the Item Store.
C4_FallbackRead == [][C4_MemoryWins /\ C4_FileServed /\ C4_GetAll]_vars

\* The parts of the PATCH contract: what the handler stores, and what it
\* answers when its file write has completed.
C5_Stored ==
  \A s \in Slots :
    ( /\ req[s].pc = "idle"
      /\ req'[s].pc = "write"
      /\ req'[s].m = "PATCH"
      /\ req'[s].body.t = "obj"
      /\ Lookup(dataStore, req'[s].id).t = "obj" )
    => LET id == req'[s].id
           V == dataStore[id].f
           U == req'[s].body.f
           W == dataStore'[id].f
       IN /\ DOMAIN W = (DOMAIN V) \cup (DOMAIN U)
          /\ \A k \in DOMAIN U : W[k] = U[k]
          /\ \A k \in (DOMAIN V) \ (DOMAIN U) : W[k] = V[k]
          /\ req'[s].data = dataStore'[id]
          /\ DOMAIN dataStore' = DOMAIN dataStore
          /\ \A other \in (DOMAIN dataStore) \ {id} :
               dataStore'[other] = dataStore[other]
C5_Answered ==
  \A s \in Ended("write") :
    (req[s].m = "PATCH" /\ resp'.status = 200) => resp'.out = req[s].data
\* C5: a PATCH with body U on an id whose Item Store value is the object V
\* stores V's fields overridden by U's, changes no other id, and answers
\* 200 with that merged object.
C5_PatchMerge == [][C5_Stored /\ C5_Answered]_vars

\* The parts of the retention contract: what a removal by the sweeper
\* removes, and what a completed sweep leaves behind.
C6_Removal ==
  ( /\ sweep.pc = "remove"
    /\ sweep' # sweep
    /\ sweep.cur \in DOMAIN files
    /\ sweep.cur \notin DOMAIN files' )
  => ( /\ sweep.cur \notin DOMAIN dataStore'
       /\ sweep.now - files[sweep.cur].mtime > retentionMs(configData) )
C6_Completed ==
  ( /\ failures = 0
    /\ failures' = 0
    /\ sweep'.pc = "scheduled"
    /\ \/ sweep.pc = "remove" /\ sweep.todo = {}
       \/ /\ sweep.pc = "next"
          /\ Cardinality(sweep.todo) = 1
          /\ sweep.todo \subseteq DOMAIN files )
  => \A id \in DOMAIN files' :
       sweep.now - files'[id].mtime <= retentionMs(configData)
\* C6: a sweep that runs to completion removes every file older than the
\* retention threshold together with its Item Store entry, and removes no
\* file that is younger.
C6_Retention == [][C6_Removal /\ C6_Completed]_vars

\* C7: a POST, PUT, PATCH or DELETE whose Authorization header is missing
\* or differs from the secret answers 401 and changes neither store.
C7_Auth ==
  [][ ( /\ Arrival
        /\ ArrivedReq.m \in Mutating
        /\ ArrivedReq.hdr # AUTH_HEADER )
      => (resp'.status = 401 /\ StoresUnchanged)
    ]_vars
\* A PUT on an id the Item Store holds has just been refused for its header.
C7_Witness ==
  /\ resp.status = 401
  /\ resp.m = "PUT"
  /\ resp.hdr # AUTH_HEADER
  /\ resp.id \in DOMAIN dataStore

\* C8: an authenticated POST, PUT or PATCH with a malformed body answers
\* 400 and changes neither store, whether or not the id exists.
C8_Malformed ==
  [][ ( /\ Arrival
        /\ ArrivedReq.m \in {"POST", "PUT", "PATCH"}
        /\ ArrivedReq.hdr = AUTH_HEADER
        /\ ArrivedReq.body = Malformed )
      => (resp'.status = 400 /\ StoresUnchanged)
    ]_vars
\* A malformed PATCH on an id that is in neither store has just been
\* answered 400.
C8_Witness ==
  /\ resp.status = 400
  /\ resp.m = "PATCH"
  /\ resp.body = Malformed
  /\ resp.id \notin DOMAIN dataStore
  /\ resp.id \notin DOMAIN files

\* C9: a successful PUT or PATCH leaves the createdAt stored in the id's
\* file as the POST wrote it.
C9_CreatedAtKept ==
  [][ \A s \in Ended("write") :
        ( /\ req[s].m \in {"PUT", "PATCH"}
          /\ resp'.status = 200
          /\ req[s].id \in DOMAIN files )
        => files'[req[s].id].content.createdAt =
             files[req[s].id].content.createdAt
    ]_vars

\* C10: while no file operation has failed, every id in the Item Store
\* whose write-through is not under way has a file.
C10_StoreHasFile ==
  failures = 0 =>
    \A id \in DOMAIN dataStore :
      (\A s \in Slots : ~ (req[s].pc = "write" /\ req[s].id = id))
        => id \in DOMAIN files
\* The first midnight of Asia/Jakarta (UTC+7) after instant t.
JakartaMidnightAfter(t) ==
  ((t + JakartaHours * HourMs) \div DayMs + 1) * DayMs - JakartaHours * HourMs

\* C11: on every host, the timer that scheduleCleanup sets at instant
\* `clock` fires at the next midnight of Asia/Jakarta.
C11_JakartaMidnight ==
  \A i \in DOMAIN timers : timers[i] = JakartaMidnightAfter(clock)

\* C12: on every host, the delay that scheduleCleanup computes is strictly
\* positive and at most one day, so no sweep runs at once at start.
C12_PositiveDelay ==
  \A i \in DOMAIN timers : timers[i] > clock /\ timers[i] - clock <= DayMs
\* A sweep run is under way, and the step that ends one.
SweepRunning == sweep.pc \in {"due", "next", "remove"}
SweepEnds == SweepRunning /\ ~ SweepRunning'
\* C13: every sweep run ends, normally or by an error, and at its end
\* exactly one next run is scheduled; there is never more than one pending
\* timer, and none is missing while no sweep runs.
C13_Reschedules ==
  /\ [](Len(timers) <= 1)
  /\ [](~ SweepRunning => Len(timers) = 1)
  /\ [][SweepEnds => /\ Len(timers') = 1
                      /\ timers'[1] = clock + delay(clock, zone)]_vars
  /\ (SweepRunning ~> ~ SweepRunning)
\* With no request received, a sweep has hit an error and the next run is
\* scheduled.
C13_Witness ==
  /\ arrivals = MaxArrivals
  /\ failures > 0
  /\ clock > StartClock
  /\ sweep.pc = "scheduled"
  /\ Len(timers) = 1
\* The entries of the listing that a sweep's step leaves unexamined when it
\* ends the run: from the loop's head one entry is the step's own, after a
\* remove none is.
LeftUnexamined ==
  IF sweep.pc = "next" THEN Cardinality(sweep.todo) - 1
                       ELSE Cardinality(sweep.todo)
\* C14: a failure on one file, in reading its modification time (the file
\* is gone since the listing) or in deleting it, does not end the sweep:
\* the run ends only when every entry of the listing has been examined.
C14_PerFileIsolation ==
  [][ ( /\ sweep'.pc = "scheduled"
        /\ \/ sweep.pc = "remove"
           \/ sweep.pc = "next" /\ failures' = failures )
      => LeftUnexamined = 0
    ]_vars
\* C15: no step of GET /json or GET /json/:id, the fallback to the files
\* included, changes the Item Store or a file, so a disk-only id is still
\* absent from the Item Store after it was read.
C15_ReadsKeepState ==
  [][ ( \/ Arrival /\ ArrivedReq.m = "GET"
        \/ Ended("read") # {}
        \/ Ended("readdir") # {} )
      => StoresUnchanged
    ]_vars
\* A disk-only id has just been served from its file and is still absent
\* from the Item Store.
C15_Witness ==
  /\ resp.status = 200
  /\ resp.m = "GET"
  /\ resp.id \in DOMAIN files
  /\ resp.id \notin DOMAIN dataStore
\* C16: a POST, PUT or PATCH stores its new value before the file write,
\* and when that write fails the handler answers 500 and rolls nothing
\* back: the Item Store and the files stay as they are.
C16_NoRollback ==
  [][ /\ \A s \in Slots :
           (req[s].pc = "idle" /\ req'[s].pc = "write")
           => Lookup(dataStore', req'[s].id) = req'[s].data
      /\ \A s \in Ended("write") :
           failures' # failures => (resp'.status = 500 /\ StoresUnchanged)
    ]_vars
\* A PUT's write has just failed: the Item Store holds the PUT's body and
\* the file still holds what the POST wrote.
C16_Witness ==
  /\ resp.status = 500
  /\ resp.m = "PUT"
  /\ resp.id \in DOMAIN files
  /\ Lookup(dataStore, resp.id) = resp.body
  /\ JObj(files[resp.id].content) # JObj(FileText(resp.body))
\* C17: the sweeper removes the file it judged expired, and the id's Item
\* Store entry, whatever has happened to the file since the stat: when a
\* PUT or PATCH has rewritten it in between and answered 200, the freshly
\* modified item is lost.
C17_StaleRemoval ==
  [][ ( /\ sweep.pc = "remove"
        /\ sweep' # sweep
        /\ sweep.cur \in DOMAIN files
        /\ failures' = failures )
      => ( /\ sweep.cur \notin DOMAIN files'
           /\ Exists(sweep.cur) => sweep.cur \notin DOMAIN dataStore' )
    ]_vars
\* The sweeper has judged id expired and is about to remove it; a PUT or
\* PATCH on id has just answered 200 and its file is fresh.
C17_Witness ==
  /\ sweep.pc = "remove"
  /\ resp.status = 200
  /\ resp.m \in {"PUT", "PATCH"}
  /\ resp.id = sweep.cur
  /\ sweep.cur \in DOMAIN files
  /\ ~ Expired(sweep.now, files[sweep.cur].mtime)
  /\ Exists(sweep.cur)
\* The fields of a file other than the createdAt stamp.
FieldsOf(content) ==
  [k \in (DOMAIN content) \ {"createdAt"} |-> content[k]]
\* The item that the server in use holds from the start: its creation is
\* over, so only PUT and PATCH write to it.
Established == {"id1"}
\* C18: while no file operation has failed, once every PUT and PATCH on an
\* id has completed, whatever the order of their file writes, the id's file
\* holds the fields of its Item Store value.
C18_Converges ==
  failures = 0 =>
    \A id \in Established \cap (DOMAIN dataStore) \cap (DOMAIN files) :
      NothingOn(id) => FieldsOf(files[id].content) = Spread(dataStore[id])
\* The fields of update U are in value v.
Holds(v, U) ==
  v.t = "obj" /\ \A k \in DOMAIN U.f : k \in DOMAIN v.f /\ v.f[k] = U.f[k]
\* Two handlers of method m are at stage pc on the same id.
Both(s, t, m, pc) ==
  /\ s # t
  /\ req[s].pc = pc /\ req[s].m = m
  /\ req[t].pc = pc /\ req[t].m = m
  /\ req[s].id = req[t].id
\* C19: a handler's Item Store step is atomic.  A PATCH that arrives while
\* another PATCH on the id, with other keys, has stored its merge and awaits
\* its file write, merges into that value: both updates are in the Item
\* Store.  A DELETE that arrives while another DELETE on the id awaits its
\* remove answers 404, and the first answers 200.
C19_NoLostUpdate ==
  \A s, t \in Slots :
    ( /\ req[s].pc = "idle" /\ req'[s].pc = "write" /\ req'[s].m = "PATCH"
      /\ req[t].pc = "write" /\ req[t].m = "PATCH" /\ req[t].id = req'[s].id
      /\ dataStore[req[t].id] = req[t].data
      /\ req[t].body.t = "obj" /\ req'[s].body.t = "obj"
      /\ (DOMAIN req[t].body.f) \cap (DOMAIN req'[s].body.f) = {} )
    => ( /\ Holds(dataStore'[req[t].id], req[t].body)
         /\ Holds(dataStore'[req[t].id], req'[s].body) )
C19_OneDelete ==
  /\ \A t \in Slots :
       ( /\ req[t].pc = "remove"
         /\ Arrival
         /\ ArrivedReq.m = "DELETE"
         /\ ArrivedReq.hdr = AUTH_HEADER
         /\ ArrivedReq.id = req[t].id )
       => resp'.status = 404
  /\ \A t \in Ended("remove") : failures' = failures => resp'.status = 200
C19_AtomicStoreStep == [][C19_NoLostUpdate /\ C19_OneDelete]_vars
\* Two PATCHes with different keys await their file writes and the Item
\* Store holds both updates.
C19_Witness ==
  \E s, t \in Slots :
    /\ Both(s, t, "PATCH", "write")
    /\ req[s].body = Upd
    /\ req[t].body = Tag
    /\ Holds(Lookup(dataStore, req[s].id), Upd)
    /\ Holds(Lookup(dataStore, req[s].id), Tag)
\* C20: an id counts as present when it is a key of the Item Store, whatever
\* its value.  An authorized PUT, PATCH or DELETE on such an id is not
\* answered 404, a GET of it is answered 200 with the Item Store value, and
\* a sweep step that removes its file removes its Item Store entry.
C20_PresenceDecides ==
  [][ \A id \in DOMAIN dataStore :
        /\ ( /\ Arrival
             /\ ArrivedReq.m \in {"PUT", "PATCH", "DELETE"}
             /\ ArrivedReq.hdr = AUTH_HEADER
             /\ ArrivedReq.id = id )
           => resp'.status # 404
        /\ (Arrival /\ ArrivedReq.m = "GET" /\ ArrivedReq.id = id)
           => (resp'.status = 200 /\ resp'.out = dataStore[id])
        /\ ( /\ sweep.pc = "remove"
             /\ sweep.cur = id
             /\ id \in DOMAIN files
             /\ id \notin DOMAIN files' )
           => id \notin DOMAIN dataStore'
    ]_vars
====
